---- MODULE Spec2Model ----
(***************************************************************************)
(* A model of the consul load balancer's resolver (package balancer):      *)
(* the refresh pipeline updateAll, the CandidatePool builder, the smooth   *)
(* weighted round-robin SelectNode and the Start/Stop lifecycle.           *)
(*                                                                         *)
(* float64 values are modelled as exact rationals <<n, d>> (d > 0, lowest  *)
(* terms).  A nil pointer is a record whose addr field is 0.  An           *)
(* unrecovered Go panic ends the process: `panicked` names the function    *)
(* that panicked and no action is enabled afterwards.                      *)
(* Fields that no modelled code path reads (host, port, public IP,         *)
(* CurrentFactor, lastIndex, crossZoneRate) are left out.                  *)
(***************************************************************************)
EXTENDS Integers, Sequences, FiniteSets, TLC

\* ------------------------------------------------------------ bounds
\* updateAll invocations (Start's and the background loop's) in a behaviour
MaxCycles == 2
\* SelectNode calls in a behaviour of Spec
MaxSelects == 2
\* updateAll invocations in a behaviour of SpecRefresh
RefreshCycles == 2
\* SelectNode calls in a behaviour of SpecWRR
WRRCalls == 26
\* nodes of the static pool of SpecWRR
MaxWRRNodes == 3
\* updateAll invocations in a behaviour of SpecSpill
SpillCycles == 4

\* ------------------------------------------------------------ rationals
RECURSIVE GCD(_, _)
GCD(a, b) == IF b = 0 THEN a ELSE GCD(b, a % b)

Abs(x) == IF x < 0 THEN -x ELSE x

Rat(n, d) == LET g == GCD(Abs(n), d) IN <<n \div g, d \div g>>

R(n) == <<n, 1>>

Zero == R(0)

RAdd(a, b) == Rat(a[1] * b[2] + b[1] * a[2], a[2] * b[2])

RSub(a, b) == Rat(a[1] * b[2] - b[1] * a[2], a[2] * b[2])

RMul(a, b) == Rat(a[1] * b[1], a[2] * b[2])

RDivInt(a, k) == Rat(a[1], a[2] * k)

RAbs(a) == <<Abs(a[1]), a[2]>>

RLt(a, b) == a[1] * b[2] < b[1] * a[2]

RECURSIVE RSum(_)
RSum(s) == IF s = <<>> THEN Zero ELSE RAdd(RSum(SubSeq(s, 1, Len(s) - 1)), s[Len(s)])

\* ------------------------------------------------------------ constants
BALANCEFACTOR_MAX_LOCAL == 3000
BALANCEFACTOR_MIN_LOCAL == 200
BALANCEFACTOR_MAX_CROSS == 1000
BALANCEFACTOR_MIN_CROSS == 1
BALANCEFACTOR_START_CROSS == 50
BALANCEFACTOR_CROSS_RATE == Rat(1, 10)

\* r.zone, the resolver's own zone (util.Zone() at construction)
ResolverZone == "A"

\* a missing zone or instance signal
DefaultWorkLoad == 100

\* ------------------------------------------------------------ maps
EmptyMap == [k \in {} |-> Zero]

Put(m, k, v) == [x \in (DOMAIN m) \cup {k} |-> IF x = k THEN v ELSE m[x]]

\* ------------------------------------------------------------ nil pointers
NilPool == [addr |-> 0, Nodes |-> <<>>, Factors |-> <<>>, Weights |-> <<>>, FactorSum |-> Zero]

NilZone == [addr |-> 0, Zone |-> "", WorkLoad |-> Zero, Nodes |-> <<>>]

NilLab == [addr |-> 0, CrossZone |-> FALSE, FactorCacheExpire |-> 0,
           FactorStartRate |-> Zero, LearningRate |-> Zero, RateThreshold |-> Zero]

NilMetric == [addr |-> 0, candidatePoolSize |-> 0, crossZoneNum |-> 0, selectNum |-> 0]

IsNil(p) == p.addr = 0

\* ------------------------------------------------------------ registry payloads
\* strconv.ParseFloat on the "balanceFactor" metadata: the numeric strings the
\* registry entries of this model carry; any other string fails to parse and
\* the error is dropped, leaving 0.
NumericStrings == ("100" :> R(100)) @@ ("200" :> R(200)) @@ ("300" :> R(300))
                  @@ ("400" :> R(400)) @@ ("600" :> R(600)) @@ ("1000" :> R(1000))
                  @@ ("5000" :> R(5000)) @@ ("20000" :> R(20000))

ParseFloat(s) == IF s \in DOMAIN NumericStrings THEN NumericStrings[s] ELSE Zero

\* health entries (entry.Service.Meta)
E1 == [instanceID |-> "i1", zone |-> "A", balanceFactor |-> "1000"]
E2 == [instanceID |-> "i2", zone |-> "A", balanceFactor |-> "5000"]
E3 == [instanceID |-> "i3", zone |-> "B", balanceFactor |-> "1000"]
E4 == [instanceID |-> "i4", zone |-> "B", balanceFactor |-> "20000"]
E5 == [instanceID |-> "i5", zone |-> "A", balanceFactor |-> "n/a"]
E6 == [instanceID |-> "i6", zone |-> "B", balanceFactor |-> "100"]

\* zone CPU payloads {updated, data}: `updated` is abstracted to whether the
\* timestamp is recent; data is the list of one-key maps of the JSON.
ZoneKV(z, cpu) == [zone |-> z, cpu |-> R(cpu)]

ZHot == [updated |-> TRUE, data |-> <<ZoneKV("A", 95), ZoneKV("B", 40)>>]
ZCold == [updated |-> FALSE, data |-> <<ZoneKV("A", 10), ZoneKV("B", 90)>>]
ZIdleB == [updated |-> TRUE, data |-> <<ZoneKV("A", 10), ZoneKV("A", 95), ZoneKV("B", 5)>>]
ZNone == [updated |-> FALSE, data |-> <<>>]

\* instance factor payloads: data is the list of InstanceMetaInfo
InstKV(id, cpu) == [InstanceID |-> id, CPUUtilization |-> R(cpu)]

INone == <<>>
ISome == <<InstKV("i1", 80), InstKV("i3", 20), InstKV("i6", 5)>>

\* online lab payloads
Lab(cross, expire) ==
    [addr |-> 1, CrossZone |-> cross, FactorCacheExpire |-> expire,
     FactorStartRate |-> Rat(1, 2), LearningRate |-> Rat(1, 5),
     RateThreshold |-> Rat(1, 10)]

\* What the registry may answer in a behaviour: the payload each key can hold
\* and the lists of healthy entries the watch can return.
SmallEnv ==
    [thr |-> {R(70)},
     zoneCPU |-> {ZHot},
     lab |-> {Lab(TRUE, 1), Lab(FALSE, 3)},
     inst |-> {ISome},
     health |-> {<<>>, <<E1>>, <<E1, E3>>, <<E3>>}]

RichEnv ==
    [thr |-> {R(70), R(99)},
     zoneCPU |-> {ZHot, ZCold, ZIdleB, ZNone},
     lab |-> {Lab(TRUE, 3), Lab(FALSE, 1)},
     inst |-> {INone, ISome},
     health |-> {<<>>, <<E1>>, <<E1, E2>>, <<E3>>, <<E1, E3>>, <<E5, E4>>,
                 <<E1, E6>>, <<E2, E3, E5, E4>>}]

\* A registry that keeps the spill gate of zone B open: the local zone A is at
\* 95, above the threshold 70, B is at 40 or 5, cross_zone is on, and B holds
\* i3 and i4 in every list; the cache expiry is 2 or 3, so that
\* IntPseudoRandom can draw a number other than 1.
SpillEnv ==
    [thr |-> {R(70)},
     zoneCPU |-> {ZHot, ZIdleB},
     lab |-> {Lab(TRUE, 2), Lab(TRUE, 3)},
     inst |-> {INone, ISome},
     health |-> {<<E1, E3, E4>>, <<E4, E2, E1, E3>>, <<E3, E5, E4>>}]

\* ------------------------------------------------------------ decoding
\* updateZoneCPUMap: m[k] = vv over the list, later entries overwrite
RECURSIVE ZoneCPUMapOf(_)
ZoneCPUMapOf(data) ==
    IF data = <<>> THEN EmptyMap
    ELSE LET last == data[Len(data)]
         IN Put(ZoneCPUMapOf(SubSeq(data, 1, Len(data) - 1)), last.zone, last.cpu)

\* updateInstanceFactorMap: m[v.InstanceID] = v.CPUUtilization over the list
RECURSIVE InstanceFactorMapOf(_)
InstanceFactorMapOf(data) ==
    IF data = <<>> THEN EmptyMap
    ELSE LET last == data[Len(data)]
         IN Put(InstanceFactorMapOf(SubSeq(data, 1, Len(data) - 1)),
                last.InstanceID, last.CPUUtilization)

\* updateServiceZone, first loop: a health entry becomes a ServiceNode
ToServiceNode(entry) ==
    [InstanceID |-> entry.instanceID, Zone |-> entry.zone,
     BalanceFactor |-> ParseFloat(entry.balanceFactor), WorkLoad |-> Zero]

\* updateServiceZone, second loop, one iteration.  st = [m, ifm]: the zones
\* built so far and r.instanceFactorMap.  `workload` is read from the map and
\* written back to it; the node's WorkLoad is set only when the map has no
\* entry.
GroupNode(st, v, zcm, addr) ==
    LET ok == v.InstanceID \in DOMAIN st.ifm
        workload == IF ok THEN st.ifm[v.InstanceID] ELSE Zero
        node == IF ok THEN v ELSE [v EXCEPT !.WorkLoad = R(DefaultWorkLoad)]
        ifm2 == Put(st.ifm, v.InstanceID, workload)
    IN IF v.Zone \in DOMAIN st.m
       THEN [m |-> [st.m EXCEPT ![v.Zone].Nodes = Append(@, node)], ifm |-> ifm2]
       ELSE [m |-> Put(st.m, v.Zone,
                       [addr |-> addr, Zone |-> v.Zone,
                        WorkLoad |-> IF v.Zone \in DOMAIN zcm THEN zcm[v.Zone]
                                     ELSE R(DefaultWorkLoad),
                        Nodes |-> <<node>>]),
             ifm |-> ifm2]

RECURSIVE GroupNodes(_, _, _, _)
GroupNodes(entries, ifm, zcm, addr) ==
    IF entries = <<>> THEN [m |-> [z \in {} |-> NilZone], ifm |-> ifm]
    ELSE GroupNode(GroupNodes(SubSeq(entries, 1, Len(entries) - 1), ifm, zcm, addr),
                   ToServiceNode(entries[Len(entries)]), zcm, addr)

\* the orders in which `for _, v := range m` can visit the zones
ZoneOrders(m) ==
    {o \in [1..Cardinality(DOMAIN m) -> DOMAIN m] :
        \A i, j \in DOMAIN o : i # j => o[i] # o[j]}

\* ------------------------------------------------------------ the builder
nodeBalanced(node, zone, lab) ==
    RLt(RDivInt(RAbs(RSub(node.WorkLoad, zone.WorkLoad)), 100), lab.RateThreshold)

zoneBalanced(lz, cz, lab) ==
    RLt(RDivInt(RAbs(RSub(lz.WorkLoad, cz.WorkLoad)), 100), RMul(lab.RateThreshold, R(2)))

\* ClampLocal without the lower clamp of lines 413-416
ClampLocalMaxOnly(bf) ==
    IF RLt(R(BALANCEFACTOR_MAX_LOCAL), bf) THEN R(BALANCEFACTOR_MAX_LOCAL) ELSE bf

\* lines 410-416
ClampLocal(bf) ==
    IF RLt(R(BALANCEFACTOR_MAX_LOCAL), bf) THEN R(BALANCEFACTOR_MAX_LOCAL)
    ELSE IF RLt(bf, R(BALANCEFACTOR_MIN_LOCAL)) THEN R(BALANCEFACTOR_MIN_LOCAL)
    ELSE bf

\* ClampCross without the lower clamp of lines 472-475
ClampCrossMaxOnly(bf) ==
    IF RLt(R(BALANCEFACTOR_MAX_CROSS), bf) THEN R(BALANCEFACTOR_MAX_CROSS) ELSE bf

\* lines 469-475
ClampCross(bf) ==
    IF RLt(R(BALANCEFACTOR_MAX_CROSS), bf) THEN R(BALANCEFACTOR_MAX_CROSS)
    ELSE IF RLt(bf, R(BALANCEFACTOR_MIN_CROSS)) THEN R(BALANCEFACTOR_MIN_CROSS)
    ELSE bf

\* lines 387-400: the factor a local node starts from
LocalStart(node, cache, factorCached, localAvgFactor, lab) ==
    IF ~factorCached THEN node.BalanceFactor
    ELSE IF node.InstanceID \in DOMAIN cache THEN cache[node.InstanceID]
    ELSE IF RLt(Zero, localAvgFactor) THEN localAvgFactor
    ELSE RMul(node.BalanceFactor, lab.FactorStartRate)

\* lines 401-409: the node-level nudge of the local pass
LocalNudge(bf, node, sz, lab, zcu) ==
    IF ~nodeBalanced(node, sz, lab) /\ zcu
    THEN IF RLt(sz.WorkLoad, node.WorkLoad)
         THEN RSub(bf, RMul(bf, lab.LearningRate))
         ELSE RAdd(bf, RMul(bf, lab.LearningRate))
    ELSE bf

\* lines 387-416
LocalFactor(node, sz, cache, factorCached, localAvgFactor, lab, zcu) ==
    ClampLocal(LocalNudge(LocalStart(node, cache, factorCached, localAvgFactor, lab),
                          node, sz, lab, zcu))

\* the condition of lines 439 and 448
SpillGate(lz, sz, lab, thr) ==
    /\ ~zoneBalanced(lz, sz, lab)
    /\ RLt(thr, lz.WorkLoad)
    /\ RLt(sz.WorkLoad, lz.WorkLoad)

\* CrossStart without the cache lookup of lines 434-438
CrossStartDeclared(node, cache) == node.BalanceFactor

\* lines 433-438
CrossStart(node, cache) ==
    IF node.InstanceID \in DOMAIN cache THEN cache[node.InstanceID]
    ELSE node.BalanceFactor

\* lines 439-446
CrossGate(bf, lz, sz, lab, thr) ==
    IF SpillGate(lz, sz, lab, thr) THEN RMul(bf, BALANCEFACTOR_CROSS_RATE)
    ELSE R(BALANCEFACTOR_MIN_CROSS)

\* lines 448-458
CrossZoneNudge(bf, lz, sz, lab, thr) ==
    IF SpillGate(lz, sz, lab, thr)
    THEN LET floored == IF RLt(bf, R(BALANCEFACTOR_START_CROSS))
                        THEN R(BALANCEFACTOR_START_CROSS) ELSE bf
         IN RAdd(floored, RMul(floored, lab.LearningRate))
    ELSE RSub(bf, RMul(bf, lab.LearningRate))

\* lines 459-467: the node-level nudge of the cross pass
CrossNodeNudge(bf, node, sz, lab) ==
    IF ~nodeBalanced(node, sz, lab)
    THEN IF RLt(sz.WorkLoad, node.WorkLoad)
         THEN RAdd(bf, RMul(bf, lab.LearningRate))
         ELSE RSub(bf, RMul(bf, lab.LearningRate))
    ELSE bf

\* lines 433-475
CrossFactor(node, sz, lz, cache, lab, thr, zcu) ==
    LET gated == CrossGate(CrossStart(node, cache), lz, sz, lab, thr)
    IN ClampCross(IF zcu
                  THEN CrossNodeNudge(CrossZoneNudge(gated, lz, sz, lab, thr), node, sz, lab)
                  ELSE gated)

\* AppendNode without the append to Weights of lines 386 and 432
AppendNodeNoWeight(acc, node, bf) ==
    [acc EXCEPT !.Nodes = Append(@, node),
                !.Factors = Append(@, bf),
                !.FactorSum = RAdd(@, bf),
                !.cache = Put(@, node.InstanceID, bf)]

\* lines 385-386, 418-421 and 431-432, 477-480: the node joins the pool under
\* construction and its factor is cached.  acc = [Nodes, Factors, Weights,
\* FactorSum, cache, localAvgFactor].
AppendNode(acc, node, bf) ==
    [acc EXCEPT !.Nodes = Append(@, node),
                !.Weights = Append(@, Zero),
                !.Factors = Append(@, bf),
                !.FactorSum = RAdd(@, bf),
                !.cache = Put(@, node.InstanceID, bf)]

\* the loop of lines 384-423 over the first k nodes of the local zone
RECURSIVE LocalPass(_, _, _, _, _, _)
LocalPass(acc, sz, k, factorCached, lab, zcu) ==
    IF k = 0 THEN acc
    ELSE LET before == LocalPass(acc, sz, k - 1, factorCached, lab, zcu)
             node == sz.Nodes[k]
         IN AppendNode(before, node,
                       LocalFactor(node, sz, before.cache, factorCached,
                                   before.localAvgFactor, lab, zcu))

\* lines 424-427
LocalAvg(acc) ==
    IF Len(acc.Factors) > 0
    THEN [acc EXCEPT !.localAvgFactor = RDivInt(acc.FactorSum, Len(acc.Factors))]
    ELSE acc

\* the loop of lines 430-482 over the first k nodes of a remote zone
RECURSIVE CrossPass(_, _, _, _, _, _, _)
CrossPass(acc, sz, k, lz, lab, thr, zcu) ==
    IF k = 0 THEN acc
    ELSE LET before == CrossPass(acc, sz, k - 1, lz, lab, thr, zcu)
             node == sz.Nodes[k]
         IN AppendNode(before, node,
                       CrossFactor(node, sz, lz, before.cache, lab, thr, zcu))

\* ZonePass with a plain else in line 428: remote zones join whatever
\* onlineLab.CrossZone says
ZonePassAnyZone(acc, sz, lz, factorCached, lab, thr, zcu) ==
    IF lz.Zone = sz.Zone
    THEN LocalAvg(LocalPass(acc, sz, Len(sz.Nodes), factorCached, lab, zcu))
    ELSE CrossPass(acc, sz, Len(sz.Nodes), lz, lab, thr, zcu)

\* one iteration of the loop of line 381
ZonePass(acc, sz, lz, factorCached, lab, thr, zcu) ==
    IF lz.Zone = sz.Zone
    THEN LocalAvg(LocalPass(acc, sz, Len(sz.Nodes), factorCached, lab, zcu))
    ELSE IF lab.CrossZone
    THEN CrossPass(acc, sz, Len(sz.Nodes), lz, lab, thr, zcu)
    ELSE acc

\* ZonesPass with the test of lines 376-378 made anew for every zone
RECURSIVE ZonesPassRetests(_, _, _, _, _, _, _, _)
ZonesPassRetests(acc, zones, k, lz, factorCached, lab, thr, zcu) ==
    IF k = 0 THEN acc
    ELSE LET before == ZonesPassRetests(acc, zones, k - 1, lz, factorCached, lab, thr, zcu)
         IN ZonePass(before, zones[k], lz, DOMAIN before.cache # {}, lab, thr, zcu)

\* the loop of line 381 over the first k zones
RECURSIVE ZonesPass(_, _, _, _, _, _, _, _)
ZonesPass(acc, zones, k, lz, factorCached, lab, thr, zcu) ==
    IF k = 0 THEN acc
    ELSE ZonePass(ZonesPass(acc, zones, k - 1, lz, factorCached, lab, thr, zcu),
                  zones[k], lz, factorCached, lab, thr, zcu)

\* lines 371-484: the pool under construction and the cache after the loops
BuildPool(zones, lz, cache, lab, thr, zcu) ==
    ZonesPass([Nodes |-> <<>>, Factors |-> <<>>, Weights |-> <<>>, FactorSum |-> Zero,
               cache |-> cache, localAvgFactor |-> Zero],
              zones, Len(zones), lz, DOMAIN cache # {}, lab, thr, zcu)

\* line 382 dereferences r.localZone on the first iteration
BuildPanics(zones, lz) == zones # <<>> /\ IsNil(lz)

\* util.IntPseudoRandom(min, max): the values r.Intn(max-min+1) + min can take
IntPseudoRandom(min, max) == min..max

\* ------------------------------------------------------------ state
VARIABLES
    logger,             \* r.logger is set
    candidatePool,      \* r.candidatePool (addr 0: nil)
    localZone,          \* r.localZone (addr 0: nil)
    serviceZones,       \* r.serviceZones
    zoneCPUMap,         \* r.zoneCPUMap
    zcUpdated,          \* zc.Updated of the zone CPU payload decoded last
    instanceFactorMap,  \* r.instanceFactorMap
    balanceFactorCache, \* r.balanceFactorCache
    cpuThreshold,       \* r.cpuThreshold
    onlineLab,          \* r.onlineLab (addr 0: nil)
    metric,             \* r.metric (addr 0: nil)
    zoneCPUUpdated,     \* r.zoneCPUUpdated
    startpc,            \* the caller of Start: none, running, failed, started
    bgpc,               \* the goroutine of Start: none, wait, run, exited
    stoppc,             \* the caller of Stop: idle, sending, returned
    upc,                \* the statement of updateAll that runs next
    runner,             \* who runs updateAll: start or bg
    err,                \* what updateAll returned last
    cycles,             \* updateAll invocations so far
    saved,              \* since the current updateAll began: pool, the pool
                        \* published then; dirty, whether a field of Config has
                        \* changed
    sel,                \* the SelectNode call in progress (it holds r.mu); its
                        \* fields pool and size are the pool line 515 read and
                        \* the number of its nodes
    calls,              \* SelectNode calls so far
    returned,           \* what the completed SelectNode calls returned, with
                        \* the pool line 515 read and its number of nodes
    panicked            \* the function whose panic ended the process

cfgVars == <<cpuThreshold, zoneCPUMap, zcUpdated, onlineLab, instanceFactorMap,
             serviceZones, localZone>>

poolVars == <<candidatePool, balanceFactorCache, metric>>

ctlVars == <<startpc, bgpc, upc, runner, err, cycles, saved>>

selVars == <<sel, calls, returned>>

vars == <<logger, cfgVars, poolVars, zoneCPUUpdated, ctlVars, stoppc, selVars, panicked>>

Config ==
    [cpuThreshold |-> cpuThreshold, zoneCPUMap |-> zoneCPUMap, onlineLab |-> onlineLab,
     instanceFactorMap |-> instanceFactorMap, serviceZones |-> serviceZones,
     localZone |-> localZone]

NilNode == [InstanceID |-> "", Zone |-> "", BalanceFactor |-> Zero, WorkLoad |-> Zero]

IdleSel == [pc |-> "idle", i |-> 0, idx |-> 0, max |-> Zero, node |-> NilNode,
            pool |-> 0, size |-> 0]

\* what identifies a published pool: everything but the running weights
Published(pool) ==
    [addr |-> pool.addr, Nodes |-> pool.Nodes, Factors |-> pool.Factors,
     FactorSum |-> pool.FactorSum]

Snapshot == [pool |-> Published(candidatePool), dirty |-> FALSE]

\* the resolver NewConsulResolver returns
Init ==
    /\ logger = FALSE
    /\ candidatePool = NilPool
    /\ localZone = NilZone
    /\ serviceZones = <<>>
    /\ zoneCPUMap = EmptyMap
    /\ zcUpdated = FALSE
    /\ instanceFactorMap = EmptyMap
    /\ balanceFactorCache = EmptyMap
    /\ cpuThreshold = Zero
    /\ onlineLab = NilLab
    /\ metric = NilMetric
    /\ zoneCPUUpdated = FALSE
    /\ startpc = "none"
    /\ bgpc = "none"
    /\ stoppc = "idle"
    /\ upc = "idle"
    /\ runner = "none"
    /\ err = "nil"
    /\ cycles = 0
    /\ saved = Snapshot
    /\ sel = IdleSel
    /\ calls = 0
    /\ returned = <<>>
    /\ panicked = "none"

Alive == panicked = "none"

\* ------------------------------------------------------------ lifecycle
SetLogger ==
    /\ Alive
    /\ ~logger
    /\ logger' = TRUE
    /\ UNCHANGED <<cfgVars, poolVars, zoneCPUUpdated, ctlVars, stoppc, selVars, panicked>>

\* Start, line 170: updateAll begins; its first statement logs through r.logger
StartCall(bound) ==
    /\ Alive
    /\ startpc \in {"none", "failed"}
    /\ cycles < bound
    /\ \/ /\ ~logger
          /\ panicked' = "updateAll"
          /\ UNCHANGED ctlVars
       \/ /\ logger
          /\ startpc' = "running"
          /\ upc' = "cpu"
          /\ runner' = "start"
          /\ cycles' = cycles + 1
          /\ saved' = Snapshot
          /\ UNCHANGED <<bgpc, err, panicked>>
    /\ UNCHANGED <<logger, cfgVars, poolVars, zoneCPUUpdated, stoppc, selVars>>

\* the goroutine of Start, case <-ts: updateAll begins
Tick(bound) ==
    /\ Alive
    /\ bgpc = "wait"
    /\ cycles < bound
    /\ bgpc' = "run"
    /\ upc' = "cpu"
    /\ runner' = "bg"
    /\ cycles' = cycles + 1
    /\ saved' = Snapshot
    /\ UNCHANGED <<startpc, err>>
    /\ UNCHANGED <<logger, cfgVars, poolVars, zoneCPUUpdated, stoppc, selVars, panicked>>

\* updateAll returns e: Start returns it; the goroutine logs it and waits again
Return(e) ==
    /\ upc' = "idle"
    /\ err' = e
    /\ IF runner = "start"
       THEN /\ startpc' = IF e = "nil" THEN "started" ELSE "failed"
            /\ bgpc' = IF e = "nil" THEN "wait" ELSE bgpc
       ELSE /\ bgpc' = "wait"
            /\ startpc' = startpc
    /\ saved' = IF e = "nil" THEN [pool |-> Published(candidatePool'), dirty |-> FALSE]
                ELSE saved
    /\ UNCHANGED <<runner, cycles>>

\* updateAll goes on to its next statement; changed: the statement just run
\* has changed a field of Config
Step(next, changed) ==
    /\ upc' = next
    /\ saved' = [saved EXCEPT !.dirty = @ \/ changed]
    /\ UNCHANGED <<startpc, bgpc, runner, err, cycles>>

\* Stop, line 198: the send on the unbuffered channel r.done begins
StopCall ==
    /\ Alive
    /\ stoppc = "idle"
    /\ stoppc' = "sending"
    /\ UNCHANGED <<logger, cfgVars, poolVars, zoneCPUUpdated, ctlVars, selVars, panicked>>

\* the goroutine of Start, case <-r.done: the send completes, the goroutine returns
RecvDone ==
    /\ Alive
    /\ bgpc = "wait"
    /\ stoppc = "sending"
    /\ bgpc' = "exited"
    /\ stoppc' = "returned"
    /\ UNCHANGED <<startpc, upc, runner, err, cycles, saved>>
    /\ UNCHANGED <<logger, cfgVars, poolVars, zoneCPUUpdated, selVars, panicked>>

\* ------------------------------------------------------------ updateAll
Running(at) == Alive /\ upc = at

UpdateCPUThreshold(env) ==
    /\ Running("cpu")
    /\ \/ /\ \E e \in {"kv", "decode"} : Return(e)
          /\ UNCHANGED cpuThreshold
       \/ /\ \E ct \in env.thr : cpuThreshold' = ct
          /\ Step("zonecpu", cpuThreshold' # cpuThreshold)
    /\ UNCHANGED <<zoneCPUMap, zcUpdated, onlineLab, instanceFactorMap, serviceZones, localZone>>
    /\ UNCHANGED <<logger, poolVars, zoneCPUUpdated, stoppc, selVars, panicked>>

UpdateZoneCPUMap(env) ==
    /\ Running("zonecpu")
    /\ \/ /\ \E e \in {"kv", "decode"} : Return(e)
          /\ UNCHANGED <<zoneCPUMap, zcUpdated>>
       \/ /\ \E zc \in env.zoneCPU :
                /\ zoneCPUMap' = ZoneCPUMapOf(zc.data)
                /\ zcUpdated' = zc.updated
          /\ Step("lab", zoneCPUMap' # zoneCPUMap)
    /\ UNCHANGED <<cpuThreshold, onlineLab, instanceFactorMap, serviceZones, localZone>>
    /\ UNCHANGED <<logger, poolVars, zoneCPUUpdated, stoppc, selVars, panicked>>

UpdateOnlineLabFactor(env) ==
    /\ Running("lab")
    /\ \/ /\ \E e \in {"kv", "decode"} : Return(e)
          /\ UNCHANGED onlineLab
       \/ /\ \E ol \in env.lab : onlineLab' = ol
          /\ Step("inst", onlineLab' # onlineLab)
    /\ UNCHANGED <<cpuThreshold, zoneCPUMap, zcUpdated, instanceFactorMap, serviceZones, localZone>>
    /\ UNCHANGED <<logger, poolVars, zoneCPUUpdated, stoppc, selVars, panicked>>

UpdateInstanceFactorMap(env) ==
    /\ Running("inst")
    /\ \/ /\ \E e \in {"kv", "decode"} : Return(e)
          /\ UNCHANGED instanceFactorMap
       \/ /\ \E data \in env.inst : instanceFactorMap' = InstanceFactorMapOf(data)
          /\ Step("svc", instanceFactorMap' # instanceFactorMap)
    /\ UNCHANGED <<cpuThreshold, zoneCPUMap, zcUpdated, onlineLab, serviceZones, localZone>>
    /\ UNCHANGED <<logger, poolVars, zoneCPUUpdated, stoppc, selVars, panicked>>

\* lines 352-359 for the zones visited in order o
ZonesInOrder(m, o) == [k \in 1..Len(o) |-> m[o[k]]]

NewLocalZone(m, old) == IF ResolverZone \in DOMAIN m THEN m[ResolverZone] ELSE old

\* UpdateServiceZone that publishes an empty pool when the watch fails
UpdateServiceZoneClears(env) ==
    /\ Running("svc")
    /\ \/ /\ candidatePool' = [NilPool EXCEPT !.addr = cycles]
          /\ Return("health")
          /\ UNCHANGED <<instanceFactorMap, serviceZones, localZone>>
       \/ /\ \E entries \in env.health :
                LET g == GroupNodes(entries, instanceFactorMap, zoneCPUMap, cycles)
                IN /\ instanceFactorMap' = g.ifm
                   /\ \E o \in ZoneOrders(g.m) : serviceZones' = ZonesInOrder(g.m, o)
                   /\ localZone' = NewLocalZone(g.m, localZone)
          /\ Step("expire", \/ instanceFactorMap' # instanceFactorMap
                             \/ serviceZones' # serviceZones
                             \/ localZone' # localZone)
          /\ UNCHANGED candidatePool
    /\ UNCHANGED <<cpuThreshold, zoneCPUMap, zcUpdated, onlineLab>>
    /\ UNCHANGED <<balanceFactorCache, metric>>
    /\ UNCHANGED <<logger, zoneCPUUpdated, stoppc, selVars, panicked>>

UpdateServiceZone(env) ==
    /\ Running("svc")
    /\ \/ /\ Return("health")
          /\ UNCHANGED <<instanceFactorMap, serviceZones, localZone>>
       \/ /\ \E entries \in env.health :
                LET g == GroupNodes(entries, instanceFactorMap, zoneCPUMap, cycles)
                IN /\ instanceFactorMap' = g.ifm
                   /\ \E o \in ZoneOrders(g.m) : serviceZones' = ZonesInOrder(g.m, o)
                   /\ localZone' = NewLocalZone(g.m, localZone)
          /\ Step("expire", \/ instanceFactorMap' # instanceFactorMap
                             \/ serviceZones' # serviceZones
                             \/ localZone' # localZone)
    /\ UNCHANGED <<cpuThreshold, zoneCPUMap, zcUpdated, onlineLab>>
    /\ UNCHANGED <<logger, poolVars, zoneCPUUpdated, stoppc, selVars, panicked>>

ExpireBalanceFactorCache ==
    /\ Running("expire")
    /\ \E rnd \in IntPseudoRandom(1, onlineLab.FactorCacheExpire) :
          balanceFactorCache' = IF 1 = rnd THEN EmptyMap ELSE balanceFactorCache
    /\ Step("pool", FALSE)
    /\ UNCHANGED <<candidatePool, metric>>
    /\ UNCHANGED <<logger, cfgVars, zoneCPUUpdated, stoppc, selVars, panicked>>

\* NewMetric that allocates a fresh metric on every refresh
NewMetricResets(old, size) ==
    [addr |-> 1, candidatePoolSize |-> size, crossZoneNum |-> 0, selectNum |-> 0]

\* lines 486-494
NewMetric(old, size) ==
    IF IsNil(old) THEN [addr |-> 1, candidatePoolSize |-> size, crossZoneNum |-> 0,
                        selectNum |-> 0]
    ELSE [old EXCEPT !.candidatePoolSize = size]

\* line 374 and 498: the pool object allocated in this cycle, as it is published
NewPool(b, addr) ==
    [addr |-> addr, Nodes |-> b.Nodes, Factors |-> b.Factors, Weights |-> b.Weights,
     FactorSum |-> b.FactorSum]

UpdateCandidatePool ==
    /\ Running("pool")
    /\ \/ /\ BuildPanics(serviceZones, localZone)
          /\ panicked' = "updateCandidatePool"
          /\ UNCHANGED <<poolVars, ctlVars>>
       \/ /\ ~BuildPanics(serviceZones, localZone)
          /\ LET b == BuildPool(serviceZones, localZone, balanceFactorCache, onlineLab,
                                cpuThreshold, zoneCPUUpdated)
             IN /\ balanceFactorCache' = b.cache
                /\ metric' = NewMetric(metric, Len(b.Nodes))
                /\ candidatePool' = NewPool(b, cycles)
          /\ Return("nil")
          /\ UNCHANGED panicked
    /\ UNCHANGED <<logger, cfgVars, zoneCPUUpdated, stoppc, selVars>>

\* ------------------------------------------------------------ SelectNode
\* line 512: r.mu is free exactly when no call is in progress
SelectLock(bound) ==
    /\ Alive
    /\ sel.pc = "idle"
    /\ calls < bound
    /\ sel' = [IdleSel EXCEPT !.pc = "check"]
    /\ calls' = calls + 1
    /\ UNCHANGED returned
    /\ UNCHANGED <<logger, cfgVars, poolVars, zoneCPUUpdated, ctlVars, stoppc, panicked>>

Absent(pool) == [idx |-> 0, node |-> NilNode, pool |-> pool.addr, size |-> Len(pool.Nodes)]

\* lines 515-520
SelectCheck ==
    /\ Alive
    /\ sel.pc = "check"
    /\ \/ /\ IsNil(candidatePool)
          /\ panicked' = "SelectNode"
          /\ UNCHANGED <<sel, returned>>
       \/ /\ ~IsNil(candidatePool)
          /\ Len(candidatePool.Nodes) = 0
          /\ sel' = IdleSel
          /\ returned' = Append(returned, Absent(candidatePool))
          /\ UNCHANGED panicked
       \/ /\ ~IsNil(candidatePool)
          /\ Len(candidatePool.Nodes) # 0
          /\ sel' = [sel EXCEPT !.pc = "loop", !.i = 1, !.idx = 1, !.max = Zero,
                                 !.pool = candidatePool.addr, !.size = Len(candidatePool.Nodes)]
          /\ UNCHANGED <<returned, panicked>>
    /\ UNCHANGED calls
    /\ UNCHANGED <<logger, cfgVars, poolVars, zoneCPUUpdated, ctlVars, stoppc>>

\* line 521, the loop condition
SelectLoop ==
    /\ Alive
    /\ sel.pc = "loop"
    /\ sel' = [sel EXCEPT !.pc = IF sel.i <= Len(candidatePool.Factors) THEN "body"
                                 ELSE "pick"]
    /\ UNCHANGED <<calls, returned>>
    /\ UNCHANGED <<logger, cfgVars, poolVars, zoneCPUUpdated, ctlVars, stoppc, panicked>>

\* SelectBody with max <= Weights[i] in line 523: the last maximum wins
SelectBodyLastMax ==
    /\ Alive
    /\ sel.pc = "body"
    /\ sel.i <= Len(candidatePool.Weights)
    /\ sel.i <= Len(candidatePool.Factors)
    /\ LET w == RAdd(candidatePool.Weights[sel.i], candidatePool.Factors[sel.i])
       IN /\ candidatePool' = [candidatePool EXCEPT !.Weights[sel.i] = w]
          /\ sel' = IF ~RLt(w, sel.max)
                    THEN [sel EXCEPT !.pc = "loop", !.i = @ + 1, !.max = w, !.idx = sel.i]
                    ELSE [sel EXCEPT !.pc = "loop", !.i = @ + 1]
    /\ UNCHANGED <<calls, returned, balanceFactorCache, metric, panicked>>
    /\ UNCHANGED <<logger, cfgVars, zoneCPUUpdated, ctlVars, stoppc>>

\* lines 522-526 and the i++ of line 521
SelectBody ==
    /\ Alive
    /\ sel.pc = "body"
    /\ \/ /\ ~(sel.i <= Len(candidatePool.Weights) /\ sel.i <= Len(candidatePool.Factors))
          /\ panicked' = "SelectNode"
          /\ UNCHANGED <<sel, candidatePool>>
       \/ /\ sel.i <= Len(candidatePool.Weights)
          /\ sel.i <= Len(candidatePool.Factors)
          /\ LET w == RAdd(candidatePool.Weights[sel.i], candidatePool.Factors[sel.i])
             IN /\ candidatePool' = [candidatePool EXCEPT !.Weights[sel.i] = w]
                /\ sel' = IF RLt(sel.max, w)
                          THEN [sel EXCEPT !.pc = "loop", !.i = @ + 1, !.max = w,
                                           !.idx = sel.i]
                          ELSE [sel EXCEPT !.pc = "loop", !.i = @ + 1]
          /\ UNCHANGED panicked
    /\ UNCHANGED <<calls, returned, balanceFactorCache, metric>>
    /\ UNCHANGED <<logger, cfgVars, zoneCPUUpdated, ctlVars, stoppc>>

\* lines 528-530
SelectPick ==
    /\ Alive
    /\ sel.pc = "pick"
    /\ \/ /\ ~(sel.idx <= Len(candidatePool.Nodes))
          /\ panicked' = "SelectNode"
          /\ UNCHANGED sel
       \/ /\ sel.idx <= Len(candidatePool.Nodes)
          /\ sel' = [sel EXCEPT !.pc = "sub", !.node = candidatePool.Nodes[sel.idx]]
          /\ UNCHANGED panicked
    /\ UNCHANGED <<calls, returned>>
    /\ UNCHANGED <<logger, cfgVars, poolVars, zoneCPUUpdated, ctlVars, stoppc>>

\* lines 532-536
Selected(m, node) ==
    [m EXCEPT !.selectNum = @ + 1,
              !.crossZoneNum = IF node.Zone # ResolverZone THEN @ + 1 ELSE @]

\* SelectSub that takes the chosen entry's own factor off its weight
SelectSubOwnFactor ==
    /\ Alive
    /\ sel.pc = "sub"
    /\ sel.idx <= Len(candidatePool.Weights)
    /\ candidatePool' = [candidatePool EXCEPT
                           !.Weights[sel.idx] = RSub(@, candidatePool.Factors[sel.idx])]
    /\ metric' = Selected(metric, sel.node)
    /\ returned' = Append(returned, [idx |-> sel.idx, node |-> sel.node,
                                      pool |-> sel.pool, size |-> sel.size])
    /\ sel' = IdleSel
    /\ UNCHANGED <<calls, balanceFactorCache, panicked>>
    /\ UNCHANGED <<logger, cfgVars, zoneCPUUpdated, ctlVars, stoppc>>

\* lines 531-539
SelectSub ==
    /\ Alive
    /\ sel.pc = "sub"
    /\ \/ /\ ~(sel.idx <= Len(candidatePool.Weights))
          /\ panicked' = "SelectNode"
          /\ UNCHANGED <<sel, returned, candidatePool, metric>>
       \/ /\ sel.idx <= Len(candidatePool.Weights)
          /\ candidatePool' = [candidatePool EXCEPT
                                 !.Weights[sel.idx] = RSub(@, candidatePool.FactorSum)]
          /\ metric' = Selected(metric, sel.node)
          /\ returned' = Append(returned, [idx |-> sel.idx, node |-> sel.node,
                                            pool |-> sel.pool, size |-> sel.size])
          /\ sel' = IdleSel
          /\ UNCHANGED panicked
    /\ UNCHANGED <<calls, balanceFactorCache>>
    /\ UNCHANGED <<logger, cfgVars, zoneCPUUpdated, ctlVars, stoppc>>

\* ------------------------------------------------------------ specifications
\* the resolver's lifecycle with callers of SelectNode and Stop
Next ==
    \/ SetLogger
    \/ StartCall(MaxCycles)
    \/ Tick(MaxCycles)
    \/ UpdateCPUThreshold(SmallEnv)
    \/ UpdateZoneCPUMap(SmallEnv)
    \/ UpdateOnlineLabFactor(SmallEnv)
    \/ UpdateInstanceFactorMap(SmallEnv)
    \/ UpdateServiceZone(SmallEnv)
    \/ ExpireBalanceFactorCache
    \/ UpdateCandidatePool
    \/ StopCall
    \/ RecvDone
    \/ SelectLock(MaxSelects)
    \/ SelectCheck
    \/ SelectLoop
    \/ SelectBody
    \/ SelectPick
    \/ SelectSub

Spec == Init /\ [][Next]_vars

\* the refresh pipeline alone, against everything the registry may answer
NextRefresh ==
    \/ SetLogger
    \/ StartCall(RefreshCycles)
    \/ Tick(RefreshCycles)
    \/ UpdateCPUThreshold(RichEnv)
    \/ UpdateZoneCPUMap(RichEnv)
    \/ UpdateOnlineLabFactor(RichEnv)
    \/ UpdateInstanceFactorMap(RichEnv)
    \/ UpdateServiceZone(RichEnv)
    \/ ExpireBalanceFactorCache
    \/ UpdateCandidatePool

SpecRefresh == Init /\ [][NextRefresh]_vars

\* every registry call of a cycle returns and the goroutine that runs the
\* cycle is scheduled: an updateAll that has begun returns or panics
UpdateAllEnds == []<>(upc = "idle" \/ ~Alive)

\* Spec with the scheduling Go gives: a running updateAll ends, and a select
\* whose channel case is ready again and again takes it
LiveSpec == Spec /\ UpdateAllEnds /\ SF_vars(RecvDone)

\* SelectNode against a static pool: the resolver after a Start whose refresh
\* found the local zone with 1..MaxWRRNodes nodes and an empty cache, and whose
\* goroutine fires no refresh.
WRRFactorStrings == {"200", "300", "400", "600"}

WRRIds == <<"w1", "w2", "w3", "w4", "w5">>

WRREntries(fs) ==
    [k \in 1..Len(fs) |->
        [instanceID |-> WRRIds[k], zone |-> ResolverZone, balanceFactor |-> fs[k]]]

InitWRR ==
    \E n \in 1..MaxWRRNodes : \E fs \in [1..n -> WRRFactorStrings] :
        LET lab == Lab(FALSE, 1)
            zcm == ZoneCPUMapOf(ZNone.data)
            g == GroupNodes(WRREntries(fs), InstanceFactorMapOf(INone), zcm, 1)
            zones == ZonesInOrder(g.m, <<ResolverZone>>)
            b == BuildPool(zones, g.m[ResolverZone], EmptyMap, lab, R(70), FALSE)
        IN /\ logger = TRUE
           /\ candidatePool = NewPool(b, 1)
           /\ localZone = g.m[ResolverZone]
           /\ serviceZones = zones
           /\ zoneCPUMap = zcm
           /\ zcUpdated = FALSE
           /\ instanceFactorMap = g.ifm
           /\ balanceFactorCache = b.cache
           /\ cpuThreshold = R(70)
           /\ onlineLab = lab
           /\ metric = NewMetric(NilMetric, Len(b.Nodes))
           /\ zoneCPUUpdated = FALSE
           /\ startpc = "started"
           /\ bgpc = "wait"
           /\ stoppc = "idle"
           /\ upc = "idle"
           /\ runner = "start"
           /\ err = "nil"
           /\ cycles = 1
           /\ saved = [pool |-> Published(NewPool(b, 1)), dirty |-> FALSE]
           /\ sel = IdleSel
           /\ calls = 0
           /\ returned = <<>>
           /\ panicked = "none"

NextWRR ==
    \/ SelectLock(WRRCalls)
    \/ SelectCheck
    \/ SelectLoop
    \/ SelectBody
    \/ SelectPick
    \/ SelectSub

SpecWRR == InitWRR /\ [][NextWRR]_vars

\* updateCandidatePool as a function of the fields it reads, at the last
\* statement of a background updateAll: r.serviceZones as updateServiceZone
\* groups a health answer, r.localZone the local zone of that answer or the
\* one left by an earlier cycle (nil when there was none), the cache an
\* earlier cycle left, and r.zoneCPUUpdated either value of its type.
LabWith(cross, lr) == [Lab(cross, 1) EXCEPT !.LearningRate = lr]

BuilderLabs ==
    {LabWith(c, lr) : c \in BOOLEAN, lr \in {Rat(1, 20), Rat(1, 5), Rat(3, 2), R(2), R(3)}}

BuilderCaches ==
    {EmptyMap,
     ("i1" :> R(800)),
     ("i1" :> R(800)) @@ ("i3" :> R(500)),
     ("i3" :> R(500)) @@ ("i4" :> R(1000)) @@ ("i6" :> R(1))}

\* the local zone an earlier cycle left: i1 alone, zone load 95
EarlierLocalZone ==
    [addr |-> 1, Zone |-> ResolverZone, WorkLoad |-> R(95),
     Nodes |-> <<[ToServiceNode(E1) EXCEPT !.WorkLoad = R(DefaultWorkLoad)]>>]

InitBuilder ==
    \E entries \in RichEnv.health, inst \in RichEnv.inst, zc \in RichEnv.zoneCPU,
       old \in {NilZone, EarlierLocalZone} :
        LET zcm == ZoneCPUMapOf(zc.data)
            g == GroupNodes(entries, InstanceFactorMapOf(inst), zcm, 2)
        IN /\ logger = TRUE
           /\ candidatePool = [NilPool EXCEPT !.addr = 1]
           /\ localZone = NewLocalZone(g.m, old)
           /\ \E o \in ZoneOrders(g.m) : serviceZones = ZonesInOrder(g.m, o)
           /\ zoneCPUMap = zcm
           /\ zcUpdated = zc.updated
           /\ instanceFactorMap = g.ifm
           /\ balanceFactorCache \in BuilderCaches
           /\ cpuThreshold \in RichEnv.thr
           /\ onlineLab \in BuilderLabs
           /\ metric = NewMetric(NilMetric, 0)
           /\ zoneCPUUpdated \in BOOLEAN
           /\ startpc = "started"
           /\ bgpc = "run"
           /\ stoppc = "idle"
           /\ upc = "pool"
           /\ runner = "bg"
           /\ err = "nil"
           /\ cycles = 2
           /\ saved = [pool |-> Published([NilPool EXCEPT !.addr = 1]), dirty |-> TRUE]
           /\ sel = IdleSel
           /\ calls = 0
           /\ returned = <<>>
           /\ panicked = "none"

NextBuilder == UpdateCandidatePool

SpecBuilder == InitBuilder /\ [][NextBuilder]_vars

\* Consecutive refreshes against SpillEnv: every fetch of every cycle
\* succeeds, and the draw of expireBalanceFactorCache is never 1, so the cache
\* is kept from one refresh to the next.
NextSpill ==
    \/ SetLogger
    \/ StartCall(SpillCycles)
    \/ Tick(SpillCycles)
    \/ UpdateCPUThreshold(SpillEnv) /\ err' = "nil"
    \/ UpdateZoneCPUMap(SpillEnv) /\ err' = "nil"
    \/ UpdateOnlineLabFactor(SpillEnv) /\ err' = "nil"
    \/ UpdateInstanceFactorMap(SpillEnv) /\ err' = "nil"
    \/ UpdateServiceZone(SpillEnv) /\ err' = "nil"
    \/ ExpireBalanceFactorCache /\ UNCHANGED balanceFactorCache
    \/ UpdateCandidatePool

SpecSpill == Init /\ [][NextSpill]_vars

\* ------------------------------------------------------------ claims
RLe(a, b) == ~RLt(b, a)

InCall == sel.pc \in {"loop", "body", "pick", "sub"}

\* C1: every step of a SelectNode call works on the pool the call first read,
\* and the index it is about to use is an index of the sequences it indexes.
C1_OnePoolPerCall ==
    InCall =>
        /\ candidatePool.addr = sel.pool
        /\ sel.pc = "body" =>
              sel.i <= Len(candidatePool.Weights) /\ sel.i <= Len(candidatePool.Factors)
        /\ sel.pc = "pick" => sel.idx <= Len(candidatePool.Nodes)
        /\ sel.pc = "sub" => sel.idx <= Len(candidatePool.Weights)

\* C2: no SelectNode call panics, and a completed call returned the absent
\* value exactly when the pool it read had no nodes.
C2_SelectNodeNeverFails ==
    /\ panicked # "SelectNode"
    /\ \A k \in DOMAIN returned : returned[k].idx = 0 <=> returned[k].size = 0

RECURSIVE SeqGCD(_)
SeqGCD(s) == IF s = <<>> THEN 0 ELSE GCD(s[Len(s)][1], SeqGCD(SubSeq(s, 1, Len(s) - 1)))

\* factor_sum / gcd(factors) of the published pool
Period == candidatePool.FactorSum[1] \div SeqGCD(candidatePool.Factors)

Share(i) == candidatePool.Factors[i][1] \div SeqGCD(candidatePool.Factors)

Picks(i) == Cardinality({k \in DOMAIN returned : returned[k].idx = i})

\* C3: against a static pool with integer factors, after every whole number w
\* of windows of Period calls node i has been returned w * factors[i]/gcd
\* times, and the entry a call picks is the first one of maximal weight.
C3_SmoothWRR ==
    /\ (sel.pc = "idle" /\ Len(returned) % Period = 0) =>
          \A i \in DOMAIN candidatePool.Factors :
              Picks(i) = (Len(returned) \div Period) * Share(i)
    /\ sel.pc = "pick" =>
          \A j \in DOMAIN candidatePool.Weights :
              \/ RLt(candidatePool.Weights[j], candidatePool.Weights[sel.idx])
              \/ candidatePool.Weights[j] = candidatePool.Weights[sel.idx] /\ sel.idx <= j

\* two whole windows over three nodes of different factors are complete
C3_Witness ==
    /\ sel.pc = "idle"
    /\ Len(candidatePool.Factors) = 3
    /\ candidatePool.Factors[1] # candidatePool.Factors[2]
    /\ candidatePool.Factors[2] # candidatePool.Factors[3]
    /\ Len(returned) = 2 * Period
    /\ Picks(3) = 2 * Share(3)

\* C4: in the published pool every local-zone factor is within
\* [BALANCEFACTOR_MIN_LOCAL, BALANCEFACTOR_MAX_LOCAL] and every cross-zone
\* factor within [BALANCEFACTOR_MIN_CROSS, BALANCEFACTOR_MAX_CROSS].
C4_FactorBounds ==
    \A i \in DOMAIN candidatePool.Factors :
        IF candidatePool.Nodes[i].Zone = ResolverZone
        THEN /\ RLe(R(BALANCEFACTOR_MIN_LOCAL), candidatePool.Factors[i])
             /\ RLe(candidatePool.Factors[i], R(BALANCEFACTOR_MAX_LOCAL))
        ELSE /\ RLe(R(BALANCEFACTOR_MIN_CROSS), candidatePool.Factors[i])
             /\ RLe(candidatePool.Factors[i], R(BALANCEFACTOR_MAX_CROSS))

\* a pool with entries clamped at both local limits and at the cross maximum
C4_Witness ==
    \E i, j, k \in DOMAIN candidatePool.Factors :
        /\ candidatePool.Nodes[i].Zone = ResolverZone
        /\ candidatePool.Nodes[i].BalanceFactor = R(5000)
        /\ candidatePool.Factors[i] = R(BALANCEFACTOR_MAX_LOCAL)
        /\ candidatePool.Nodes[j].Zone = ResolverZone
        /\ candidatePool.Nodes[j].BalanceFactor = Zero
        /\ candidatePool.Factors[j] = R(BALANCEFACTOR_MIN_LOCAL)
        /\ candidatePool.Nodes[k].Zone # ResolverZone
        /\ candidatePool.Nodes[k].BalanceFactor = R(20000)
        /\ candidatePool.Factors[k] = R(BALANCEFACTOR_MAX_CROSS)

\* a refresh has just replaced the published pool
Publishes == candidatePool'.addr # candidatePool.addr

\* C5: the pool a refresh publishes has as many factors and weights as nodes,
\* every weight 0, and FactorSum the sum of its factors.
C5_PublishedShape ==
    [][Publishes =>
          /\ Len(candidatePool'.Factors) = Len(candidatePool'.Nodes)
          /\ Len(candidatePool'.Weights) = Len(candidatePool'.Nodes)
          /\ \A i \in DOMAIN candidatePool'.Weights : candidatePool'.Weights[i] = Zero
          /\ candidatePool'.FactorSum = RSum(candidatePool'.Factors)]_vars

\* the second refresh has published a pool of four nodes
C5_Witness ==
    /\ candidatePool.addr = 2
    /\ upc = "idle"
    /\ Len(candidatePool.Nodes) = 4
    /\ candidatePool.FactorSum = RSum(candidatePool.Factors)

NodesOf(pool) == {pool.Nodes[i] : i \in DOMAIN pool.Nodes}

LocalNodes(zones) ==
    UNION {{zones[z].Nodes[i] : i \in DOMAIN zones[z].Nodes} :
              z \in {y \in DOMAIN zones : zones[y].Zone = ResolverZone}}

\* C6: when onlineLab.CrossZone is false, the pool a refresh publishes holds
\* no node of another zone and every node of the local zone of the snapshot.
C6_LocalOnly ==
    [][(Publishes /\ ~onlineLab.CrossZone) =>
          /\ \A n \in NodesOf(candidatePool') : n.Zone = ResolverZone
          /\ LocalNodes(serviceZones) \subseteq NodesOf(candidatePool')]_vars

\* a refresh with cross_zone false has published local nodes while the
\* snapshot holds a remote zone
C6_Witness ==
    /\ upc = "idle"
    /\ err = "nil"
    /\ candidatePool.addr = cycles
    /\ ~onlineLab.CrossZone
    /\ Len(candidatePool.Nodes) = 2
    /\ \E z \in DOMAIN serviceZones : serviceZones[z].Zone # ResolverZone

\* C7: while a background cycle is at one of its fetches, and after it has
\* returned an error, the published pool is the pool published when the cycle
\* began.
C7_FailedCycleKeepsPool ==
    (runner = "bg" /\ (upc \in {"cpu", "zonecpu", "lab", "inst", "svc"}
                       \/ (upc = "idle" /\ err # "nil"))) =>
        /\ ~IsNil(candidatePool)
        /\ Published(candidatePool) = saved.pool

\* a background cycle has failed at the health watch and a SelectNode call is
\* selecting from the pool published before it
C7_Witness ==
    /\ runner = "bg"
    /\ upc = "idle"
    /\ err = "health"
    /\ Len(candidatePool.Nodes) > 0
    /\ sel.pc = "sub"
    /\ sel.pool = candidatePool.addr

\* C8: after updateAll has returned an error, every field of Config has the
\* value it had when that updateAll began.
C8_FailedCycleAppliesNothing ==
    (upc = "idle" /\ err # "nil") => ~saved.dirty

\* C9: a Stop called after a successful Start returns, and once it has
\* returned the goroutine has taken the stop signal and runs no cycle.
C9_StopReturns ==
    /\ (startpc = "started" /\ stoppc = "sending") ~> stoppc = "returned"
    /\ [](stoppc = "returned" => bgpc = "exited" /\ (runner = "bg" => upc = "idle"))

ZoneOfNode(zones, node) ==
    zones[CHOOSE z \in DOMAIN zones : zones[z].Zone = node.Zone]

RMax(a, b) == IF RLt(a, b) THEN b ELSE a

\* the factor C10 names: clamp(max(declared * 0.1, 50) * (1 + learning_rate), 1, 1000)
SpillFactor(node, lab) ==
    ClampCross(RMul(RMax(RMul(node.BalanceFactor, BALANCEFACTOR_CROSS_RATE),
                         R(BALANCEFACTOR_START_CROSS)),
                    RAdd(R(1), lab.LearningRate)))

\* C10: a refresh whose zone CPU payload is fresh publishes every uncached,
\* balanced cross-zone node of a zone with an open spill gate with the factor
\* clamp(max(declared * 0.1, 50) * (1 + learning_rate), 1, 1000).
C10_SpillFactor ==
    [][(Publishes /\ onlineLab.CrossZone /\ zcUpdated) =>
          \A i \in DOMAIN candidatePool'.Nodes :
              LET node == candidatePool'.Nodes[i]
                  sz == ZoneOfNode(serviceZones, node)
              IN (/\ node.Zone # ResolverZone
                  /\ SpillGate(localZone, sz, onlineLab, cpuThreshold)
                  /\ node.InstanceID \notin DOMAIN balanceFactorCache
                  /\ nodeBalanced(node, sz, onlineLab))
                 => candidatePool'.Factors[i] = SpillFactor(node, onlineLab)]_vars

\* the zones of the snapshot a node can belong to
RemoteIn(pool, i) == pool.Nodes[i].Zone # ResolverZone

RECURSIVE CachedFactors(_, _)
CachedFactors(nodes, cache) ==
    IF nodes = <<>> THEN <<>>
    ELSE LET rest == CachedFactors(SubSeq(nodes, 1, Len(nodes) - 1), cache)
             last == nodes[Len(nodes)]
         IN IF last.InstanceID \in DOMAIN cache
            THEN Append(rest, cache[last.InstanceID]) ELSE rest

\* local_avg as C12 names it: the average of the cached factors of the peers
PeerAvg(sz, cache) ==
    RDivInt(RSum(CachedFactors(sz.Nodes, cache)), Len(CachedFactors(sz.Nodes, cache)))

\* C12: a refresh with a non-empty cache publishes a local node that has no
\* cache entry, while a node of its zone has one, with the factor that starts
\* from the average of its peers' cached factors (then nudge and clamp).
C12_WarmStartFromPeers ==
    [][(Publishes /\ DOMAIN balanceFactorCache # {}) =>
          \A i \in DOMAIN candidatePool'.Nodes :
              LET node == candidatePool'.Nodes[i]
                  sz == ZoneOfNode(serviceZones, node)
              IN (/\ node.Zone = ResolverZone
                  /\ node.InstanceID \notin DOMAIN balanceFactorCache
                  /\ CachedFactors(sz.Nodes, balanceFactorCache) # <<>>)
                 => candidatePool'.Factors[i] =
                        ClampLocal(LocalNudge(PeerAvg(sz, balanceFactorCache), node, sz,
                                              onlineLab, zoneCPUUpdated))]_vars

\* C13: updateServiceZone leaves every node of the snapshot with the load the
\* instance factor map fetched in this cycle holds for its instance id, and
\* with 100 when the map has no entry for it.
C13_NodeWorkloads ==
    [][(upc = "svc" /\ upc' = "expire") =>
          \A z \in DOMAIN serviceZones' : \A k \in DOMAIN serviceZones'[z].Nodes :
              LET n == serviceZones'[z].Nodes[k]
              IN n.WorkLoad = IF n.InstanceID \in DOMAIN instanceFactorMap
                              THEN instanceFactorMap[n.InstanceID]
                              ELSE R(DefaultWorkLoad)]_vars

\* C14: updateCandidatePool runs with r.zoneCPUUpdated true whenever the
\* zone CPU payload decoded in its cycle is fresh.
C14_FreshPayloadSetsFlag ==
    (upc = "pool" /\ zcUpdated) => zoneCPUUpdated

C16_LocalZoneOfSnapshot ==
    upc \in {"expire", "pool"} =>
        \/ IsNil(localZone)
        \/ /\ localZone.Zone = ResolverZone
           /\ \E z \in DOMAIN serviceZones : serviceZones[z] = localZone

\* the snapshot has no zone named as the resolver's zone
NoLocalZone == \A z \in DOMAIN serviceZones : serviceZones[z].Zone # ResolverZone

\* C17: updateCandidatePool on a snapshot without a local zone does not panic
\* and publishes a pool without local nodes, empty when onlineLab.CrossZone is
\* false.
C17_NoLocalZoneRefresh ==
    [][(upc = "pool" /\ NoLocalZone) =>
          /\ panicked' = "none"
          /\ Publishes
          /\ \A i \in DOMAIN candidatePool'.Nodes : RemoteIn(candidatePool', i)
          /\ ~onlineLab.CrossZone => candidatePool'.Nodes = <<>>]_vars

\* the completed SelectNode calls that returned a node
NodeReturns == {k \in DOMAIN returned : returned[k].idx # 0}

\* C18: selectNum is the number of SelectNode calls that returned a node and
\* crossZoneNum the number of those whose node is of another zone than the
\* resolver's; no step decreases either, and crossZoneNum <= selectNum.
C18_SelectCounters ==
    /\ [](/\ metric.selectNum = Cardinality(NodeReturns)
          /\ metric.crossZoneNum =
                 Cardinality({k \in NodeReturns : returned[k].node.Zone # ResolverZone})
          /\ metric.crossZoneNum <= metric.selectNum)
    /\ [][/\ metric'.selectNum >= metric.selectNum
          /\ metric'.crossZoneNum >= metric.crossZoneNum]_vars

\* a call returned a local node from the first pool, a refresh replaced the
\* pool, and a second call returned a node of another zone
C18_Witness ==
    /\ metric.selectNum = 2
    /\ metric.crossZoneNum = 1
    /\ Len(returned) = 2
    /\ returned[1].pool = 1
    /\ returned[2].pool = 2
    /\ candidatePool.addr = 2

\* the zones of a snapshot in the order o
Reordered(zones, o) == [k \in DOMAIN zones |-> zones[o[k]]]

Orders(zones) ==
    {o \in [DOMAIN zones -> DOMAIN zones] : \A i, j \in DOMAIN o : i # j => o[i] # o[j]}

\* the factor of each instance in what a build returns
FactorOf(b) == [id \in {b.Nodes[i].InstanceID : i \in DOMAIN b.Nodes} |->
                   b.Factors[CHOOSE i \in DOMAIN b.Nodes : b.Nodes[i].InstanceID = id]]

\* C19: the factor of every node, the cache and FactorSum that a refresh
\* publishes are those updateCandidatePool computes from the same fields with
\* the zones of r.serviceZones in any other order.
C19_ZoneOrderIndependent ==
    [][Publishes =>
          \A o \in Orders(serviceZones) :
              LET b == BuildPool(Reordered(serviceZones, o), localZone, balanceFactorCache,
                                 onlineLab, cpuThreshold, zoneCPUUpdated)
              IN /\ FactorOf(b) = FactorOf(candidatePool')
                 /\ b.cache = balanceFactorCache'
                 /\ b.FactorSum = candidatePool'.FactorSum]_vars

\* a pool of local and remote nodes has been built from a non-empty cache,
\* remote zone first, with r.zoneCPUUpdated true
C19_Witness ==
    /\ upc = "idle"
    /\ zoneCPUUpdated
    /\ Len(serviceZones) = 2
    /\ serviceZones[1].Zone # ResolverZone
    /\ Len(candidatePool.Nodes) = 4
    /\ candidatePool.Nodes[1].Zone # ResolverZone
    /\ candidatePool.Nodes[4].Zone = ResolverZone
    /\ candidatePool.Factors[1] # candidatePool.Nodes[1].BalanceFactor

\* C20: against a static pool the running weights sum to 0 whenever no
\* SelectNode call is in progress, and the entry a call picks has a positive
\* weight that no other entry exceeds.
C20_WeightsSumToZero ==
    /\ sel.pc = "idle" => RSum(candidatePool.Weights) = Zero
    /\ sel.pc = "pick" =>
          /\ RLt(Zero, candidatePool.Weights[sel.idx])
          /\ candidatePool.Weights[sel.idx] = sel.max
          /\ \A j \in DOMAIN candidatePool.Weights :
                 RLe(candidatePool.Weights[j], candidatePool.Weights[sel.idx])
          /\ RSum(candidatePool.Weights) = candidatePool.FactorSum

\* after three calls on a pool of two nodes the weights are not all 0
C20_Witness ==
    /\ sel.pc = "idle"
    /\ Len(returned) = 3
    /\ Len(candidatePool.Weights) = 2
    /\ RLt(candidatePool.Weights[1], Zero)
    /\ RLt(Zero, candidatePool.Weights[2])

\* the factor the pool gives the node of instance id, as a set
FactorsOf(pool, id) ==
    {pool.Factors[j] : j \in {k \in DOMAIN pool.Nodes : pool.Nodes[k].InstanceID = id}}

\* C21: over consecutive refreshes that keep the spill gate of a remote zone
\* open, with r.zoneCPUUpdated false and the cache not cleared, a refresh
\* publishes a node of that zone with max(1, 0.1 * its factor in the pool of
\* the previous refresh), which is the cached factor; the factor never
\* increases, and from the fourth refresh on, three refreshes after the first
\* one published the node, it is BALANCEFACTOR_MIN_CROSS.
C21_SpillDecay ==
    [][(Publishes /\ onlineLab.CrossZone /\ ~zoneCPUUpdated) =>
          \A i \in DOMAIN candidatePool'.Nodes :
              LET node == candidatePool'.Nodes[i]
                  id == node.InstanceID
                  factor == candidatePool'.Factors[i]
              IN (/\ RemoteIn(candidatePool', i)
                  /\ id \in DOMAIN balanceFactorCache
                  /\ SpillGate(localZone, ZoneOfNode(serviceZones, node),
                               onlineLab, cpuThreshold))
                 => /\ FactorsOf(candidatePool, id) = {balanceFactorCache[id]}
                    /\ factor = RMax(R(BALANCEFACTOR_MIN_CROSS),
                                     RMul(balanceFactorCache[id], BALANCEFACTOR_CROSS_RATE))
                    /\ RLe(factor, balanceFactorCache[id])
                    /\ (cycles > 3 => factor = R(BALANCEFACTOR_MIN_CROSS))]_vars

\* the fourth consecutive refresh has published i4, declared 20000 and sent
\* out at 1000, 100 and 10 by the three refreshes before, with factor 1
C21_Witness ==
    /\ upc = "idle"
    /\ cycles = 4
    /\ candidatePool.addr = 4
    /\ ~zoneCPUUpdated
    /\ \E i \in DOMAIN candidatePool.Nodes :
          /\ candidatePool.Nodes[i].InstanceID = "i4"
          /\ candidatePool.Nodes[i].BalanceFactor = R(20000)
          /\ SpillGate(localZone, ZoneOfNode(serviceZones, candidatePool.Nodes[i]),
                       onlineLab, cpuThreshold)
          /\ candidatePool.Factors[i] = R(BALANCEFACTOR_MIN_CROSS)
          /\ balanceFactorCache["i4"] = R(BALANCEFACTOR_MIN_CROSS)

====
